---- MODULE Spec2Model ----
(***************************************************************************)
(* Model of sdk-schema/sync-sdk-schema.py: the union inference over the    *)
(* exported JSON schema, the post-processing of the generated data model   *)
(* source, and the script's main sequence.                                 *)
(*                                                                         *)
(* Python strings that the code splits, joins or compares by part (names,  *)
(* references, tag values) are sequences of atoms: "Foo/returns" is        *)
(* <<"Foo", "/", "returns">>.  Atoms are chosen uniquely decodable, so two *)
(* Python strings are equal exactly when their atom sequences are.         *)
(* A JSON object schema is a function from its keys to their values; a     *)
(* mapping whose iteration order matters ("definitions", "properties",     *)
(* the extracted definitions) is a sequence of [k, v] entries.             *)
(***************************************************************************)
EXTENDS Integers, Sequences, FiniteSets, TLC

VARIABLES
    schema,      \* _SchemaProcessor._schema["definitions"]
    new_defs,    \* _process_schema: new_defs
    idx,         \* position of the loop over schema_defs.items()
    pc,          \* control point of the inference run
    err,         \* the exception that ended the run ("" if none)
    log,         \* the lines printed by the inference, in order
    run,         \* number of the inference run in progress
    input,       \* the document as loaded by the first run
    first,       \* the document produced by the first run
    generated,               \* the statements of the generated module
    body,                    \* model_ast.body
    dict_token_replacements,
    exported_names,
    declared_structs,
    additional_nodes,
    body_idx,                \* position of the loop over model_ast.body
    tokens,                  \* updated_tokens
    source,                  \* updated_source_lines
    gpc,                     \* control point of the post-processing
    gerr,                    \* the exception that ended the post-processing
    argv,        \* sys.argv[1:]
    exists,      \* which of the files of the script exist
    step,        \* the next command of the schema export
    ran,         \* the external steps run so far, with their outcome
    mpc,         \* control point of _main
    merr         \* the exception that ended _main ("" if none)

inferVars == <<schema, new_defs, idx, pc, err, log, run, input, first>>
genVars == <<generated, body, dict_token_replacements, exported_names,
             declared_structs, additional_nodes, body_idx, tokens, source,
             gpc, gerr>>
mainVars == <<argv, exists, step, ran, mpc, merr>>
vars == <<inferVars, genVars, mainVars>>

\* the variables of a part of the program that is not running
GenIdle ==
    /\ generated = <<>>
    /\ body = <<>>
    /\ dict_token_replacements = <<>>
    /\ exported_names = <<>>
    /\ declared_structs = {}
    /\ additional_nodes = <<>>
    /\ body_idx = 0
    /\ tokens = <<>>
    /\ source = <<>>
    /\ gpc = "idle"
    /\ gerr = ""

InferIdle ==
    /\ schema = <<>>
    /\ input = <<>>
    /\ first = <<>>
    /\ new_defs = <<>>
    /\ idx = 0
    /\ pc = "idle"
    /\ err = ""
    /\ log = <<>>
    /\ run = 0

MainIdle ==
    /\ argv = <<>>
    /\ exists = <<>>
    /\ step = 0
    /\ ran = <<>>
    /\ mpc = "idle"
    /\ merr = ""

-----------------------------------------------------------------------------
(* Strings as atom sequences *)

RECURSIVE SplitFrom(_, _, _, _)
SplitFrom(s, sep, i, cur) ==
    IF i > Len(s) THEN <<cur>>
    ELSE IF s[i] = sep THEN <<cur>> \o SplitFrom(s, sep, i + 1, <<>>)
    ELSE SplitFrom(s, sep, i + 1, Append(cur, s[i]))

\* str.split(sep)
Split(s, sep) == SplitFrom(s, sep, 1, <<>>)

\* str.replace(a, b) for one-atom a and b
ReplaceAtom(s, a, b) == [i \in 1..Len(s) |-> IF s[i] = a THEN b ELSE s[i]]

\* str.endswith(suf)
EndsWith(s, suf) ==
    /\ Len(s) >= Len(suf)
    /\ SubSeq(s, Len(s) - Len(suf) + 1, Len(s)) = suf

\* str.removesuffix(suf)
RemoveSuffix(s, suf) ==
    IF EndsWith(s, suf) THEN SubSeq(s, 1, Len(s) - Len(suf)) ELSE s

\* str.removeprefix(pre)
RemovePrefix(s, pre) ==
    IF Len(s) >= Len(pre) /\ SubSeq(s, 1, Len(pre)) = pre
    THEN SubSeq(s, Len(pre) + 1, Len(s)) ELSE s

\* the upper-case form of the first character of an atom
UpperTable ==
    [a |-> "A", b |-> "B", circle |-> "Circle", square |-> "Square",
     type |-> "Type", role |-> "Role", kind |-> "Kind", success |-> "Success",
     code |-> "Code", inner |-> "Inner", side |-> "Side", radius |-> "Radius",
     p |-> "P", q |-> "Q", x |-> "X", jsonFile |-> "JsonFile", yamlFile |-> "YamlFile",
     returns |-> "Returns"]

UpperFirst(a) == IF a \in DOMAIN UpperTable THEN UpperTable[a] ELSE a

RECURSIVE Concat(_)
Concat(ss) == IF Len(ss) = 0 THEN <<>> ELSE Head(ss) \o Concat(Tail(ss))

-----------------------------------------------------------------------------
(* Ordered mappings *)

DHas(d, k) == \E i \in 1..Len(d) : d[i].k = k
DIndex(d, k) == CHOOSE i \in 1..Len(d) : d[i].k = k
DGet(d, k) == d[DIndex(d, k)].v
DSet(d, k, v) ==
    IF DHas(d, k) THEN [d EXCEPT ![DIndex(d, k)] = [k |-> k, v |-> v]]
    ELSE Append(d, [k |-> k, v |-> v])
DDel(d, k) == SelectSeq(d, LAMBDA e : e.k # k)
DKeys(d) == {d[i].k : i \in 1..Len(d)}

(* Schema objects *)

SetKey(node, k, v) == (k :> v) @@ node
SetDefault(node, k, v) == IF k \in DOMAIN node THEN node ELSE SetKey(node, k, v)
Has(node, k) == k \in DOMAIN node

Key(k) == [t |-> "key", k |-> k]
Fld(k) == [t |-> "fld", k |-> k]
Idx(i) == [t |-> "idx", k |-> i]

StepGet(node, st) == IF st.t = "fld" THEN DGet(node, st.k) ELSE node[st.k]

RECURSIVE GetAt(_, _)
GetAt(node, path) ==
    IF Len(path) = 0 THEN node
    ELSE GetAt(StepGet(node, Head(path)), Tail(path))

RECURSIVE SetAt(_, _, _)
SetAt(node, path, v) ==
    IF Len(path) = 0 THEN v
    ELSE LET st == Head(path)
             sub == SetAt(StepGet(node, st), Tail(path), v)
         IN  IF st.t = "fld" THEN DSet(node, st.k, sub)
             ELSE [node EXCEPT ![st.k] = sub]

RefPrefix == <<"#", "/", "definitions", "/">>
DefRef(name) == RefPrefix \o name
RefSpec(ref) == "$ref" :> ref
NullSpec == [type |-> "null"]
VoidSpec == [not |-> <<>>]

-----------------------------------------------------------------------------
(* _resolve_json_ref *)

KindOf(k) ==
    CASE k = "properties" -> "odict"
      [] k \in {"items", "not", "discriminator"} -> "node"
      [] k = "anyOf" -> "list"
      [] OTHER -> "leaf"

RECURSIVE ResolveWalk(_, _, _, _, _)
ResolveWalk(node, kind, parts, i, path) ==
    IF i > Len(parts) THEN [err |-> "", path |-> path]
    ELSE LET part == parts[i] IN
        IF kind = "odict" THEN
            IF DHas(node, part)
            THEN ResolveWalk(DGet(node, part), "node", parts, i + 1,
                             Append(path, Fld(part)))
            ELSE [err |-> "KeyError", path |-> <<>>]
        ELSE IF kind = "node" THEN
            IF Len(part) = 1 /\ part[1] \in DOMAIN node
            THEN ResolveWalk(node[part[1]], KindOf(part[1]), parts, i + 1,
                             Append(path, Key(part[1])))
            ELSE [err |-> "KeyError", path |-> <<>>]
        ELSE [err |-> "TypeError", path |-> <<>>]

\* The path, below "definitions", of the object the reference names, or the
\* exception the lookup raises.  The document's only top-level key is
\* "definitions".
ResolveJsonRef(defs, ref) ==
    LET ref_parts == Split(ref, "/") IN
    IF ref_parts[1] # <<"#">> THEN [err |-> "RuntimeError:ExternalRef", path |-> <<>>]
    ELSE IF Len(ref_parts) < 2 THEN [err |-> "IndexError", path |-> <<>>]
    ELSE IF ref_parts[2] # <<"definitions">> THEN [err |-> "KeyError", path |-> <<>>]
    ELSE ResolveWalk(defs, "odict", ref_parts, 3, <<>>)

-----------------------------------------------------------------------------
(* _check_discriminator *)

_POTENTIAL_TAG_FIELDS == <<<<"type">>, <<"success">>, <<"role">>, <<"code">>>>

RECURSIVE CheckFrom(_, _, _)
CheckFrom(tag_field, union_array, i) ==
    IF i > Len(union_array) THEN "True"
    ELSE LET entry == union_array[i] IN
        IF ~Has(entry, "properties") THEN "False"
        ELSE IF ~DHas(entry["properties"], tag_field) THEN "False"
        ELSE LET field_def == DGet(entry["properties"], tag_field) IN
            IF ~Has(field_def, "type") THEN "KeyError"
            ELSE IF field_def["type"] # "string" THEN "False"
            ELSE IF ~Has(field_def, "const") THEN "False"
            ELSE CheckFrom(tag_field, union_array, i + 1)

\* "True", "False", or "KeyError" when a member's tag property has no "type"
_check_discriminator(tag_field, union_array) == CheckFrom(tag_field, union_array, 1)

-----------------------------------------------------------------------------
(* _make_spec_name *)

SuffixParts(suffix) == Split(ReplaceAtom(suffix, ".", "/"), "/")

\* p[0] raises IndexError on an empty part
MakeSpecNameFails(suffix) ==
    \E i \in 1..Len(SuffixParts(suffix)) : Len(SuffixParts(suffix)[i]) = 0

CamelPart(part) == <<UpperFirst(part[1])>> \o Tail(part)

_make_spec_name(parent_name, suffix) ==
    LET parts == SuffixParts(suffix)
        camel_cased == [i \in 1..Len(parts) |-> CamelPart(parts[i])]
    IN  parent_name \o Concat(camel_cased)

-----------------------------------------------------------------------------
(* _merge_defs *)

MergeFails(existing_defs, defs) == DKeys(existing_defs) \cap DKeys(defs) # {}

\* dict.update: entries appended in the order of the new mapping
_merge_defs(existing_defs, defs) == existing_defs \o defs

-----------------------------------------------------------------------------
(* _SchemaProcessor *)

\* The result of a processing method: the document after the method's
\* in-place changes, the mapping it returns (none = TRUE for None), the
\* exception it raises ("" for none) and the lines it prints.
Result(defs, none, out, e, lines) ==
    [defs |-> defs, none |-> none, out |-> out, err |-> e, log |-> lines]

Raise(defs, e, lines) == Result(defs, TRUE, <<>>, e, lines)

\* _is_void_union: the payload member, or None
IsVoidUnion(union_members) ==
    LET allows_omission == {VoidSpec, NullSpec} IN
    IF Len(union_members) # 2 THEN [none |-> TRUE, val |-> <<>>]
    ELSE LET m1 == union_members[1]
             m2 == union_members[2]
         IN  IF m1 \in allows_omission
             THEN IF m2 \notin allows_omission
                  THEN [none |-> FALSE, val |-> m2]
                  ELSE [none |-> TRUE, val |-> <<>>]
             ELSE IF m2 \in allows_omission
                  THEN [none |-> FALSE, val |-> m1]
                  ELSE [none |-> TRUE, val |-> <<>>]

ReturnsSuffix == <<"/", "returns">>

_process_rpc_result_union(defs, path, name) ==
    LET union_member_specs == GetAt(defs, path)["anyOf"]
        result_spec == IsVoidUnion(union_member_specs)
        result_spec_name == RemoveSuffix(name, ReturnsSuffix) \o <<"ReturnValue">>
        result_spec_ref == DefRef(result_spec_name)
    IN  IF result_spec.none THEN Result(defs, TRUE, <<>>, "", <<>>)
        ELSE Result(SetAt(defs, Append(path, Key("anyOf")),
                          <<RefSpec(result_spec_ref), NullSpec>>),
                    FALSE,
                    <<[k |-> result_spec_name, v |-> result_spec.val]>>,
                    "", <<>>)

\* spec_refs: the member's "$ref" (<<>> for None: an empty string is falsy)
MemberRef(member_spec) ==
    IF Has(member_spec, "$ref") THEN member_spec["$ref"] ELSE <<>>

\* the index of the first member whose reference does not resolve, or 0
FirstUnresolved(defs, members) ==
    LET bad == {i \in 1..Len(members) :
                   /\ MemberRef(members[i]) # <<>>
                   /\ ResolveJsonRef(defs, MemberRef(members[i])).err # ""}
    IN  IF bad = {} THEN 0 ELSE CHOOSE i \in bad : \A j \in bad : i <= j

\* where resolved_specs[i] lives in the document
ResolvedPath(defs, path, members, i) ==
    IF MemberRef(members[i]) = <<>> THEN path \o <<Key("anyOf"), Idx(i)>>
    ELSE ResolveJsonRef(defs, MemberRef(members[i])).path

\* The loop over _POTENTIAL_TAG_FIELDS: the discriminator (<<>> for None),
\* or the KeyError of the first check that raises.
RECURSIVE FindDiscriminator(_, _)
FindDiscriminator(resolved_specs, t) ==
    IF t > Len(_POTENTIAL_TAG_FIELDS) THEN [err |-> "", tag |-> <<>>]
    ELSE LET r == _check_discriminator(_POTENTIAL_TAG_FIELDS[t], resolved_specs) IN
        IF r = "KeyError" THEN [err |-> "KeyError", tag |-> <<>>]
        ELSE IF r = "True" THEN [err |-> "", tag |-> _POTENTIAL_TAG_FIELDS[t]]
        ELSE FindDiscriminator(resolved_specs, t + 1)

\* a tag property left as the document has it
WithoutTagDefaults(tag_spec, tag_value, tag_title) == tag_spec

\* tag_spec.setdefault("default", ...); tag_spec.setdefault("title", ...)
WithTagDefaults(tag_spec, tag_value, tag_title) ==
    SetDefault(SetDefault(tag_spec, "default", tag_value), "title", tag_title)

\* new_defs[new_spec_name] = resolved_spec: a plain item assignment, which
\* replaces an entry of the same name
StoreVariant(variant_defs, new_spec_name, resolved_spec) ==
    DSet(variant_defs, new_spec_name, resolved_spec)

\* The loop of _extract_union_variants that builds the discriminator map.
\* st = [defs, out, map, log, err]
RECURSIVE BuildVariants(_, _, _, _, _, _)
BuildVariants(st, path, name, discriminator, members, i) ==
    IF i > Len(members) \/ st.err # "" THEN st
    ELSE
      LET rpath == ResolvedPath(st.defs, path, members, i)
          resolved_spec == GetAt(st.defs, rpath)
          tag_spec == DGet(resolved_spec["properties"], discriminator)
          tag_value == tag_spec["const"]
          tag_title == <<UpperFirst(discriminator[1])>>
          tagged == WithTagDefaults(tag_spec, tag_value, tag_title)
          anonymous == MemberRef(members[i]) = <<>>
          new_spec_name == _make_spec_name(name, tag_value)
          spec_ref == IF anonymous THEN DefRef(new_spec_name)
                      ELSE MemberRef(members[i])
          named_spec == [resolved_spec EXCEPT !["properties"] =
                            DSet(resolved_spec["properties"], discriminator, tagged)]
      IN
        IF anonymous /\ MakeSpecNameFails(tag_value)
        THEN [st EXCEPT !.err = "IndexError"]
        ELSE BuildVariants(
               [defs |-> IF anonymous
                         THEN SetAt(st.defs, path \o <<Key("anyOf"), Idx(i)>>,
                                    RefSpec(spec_ref))
                         ELSE SetAt(st.defs, rpath, named_spec),
                out  |-> IF anonymous
                         THEN StoreVariant(st.out, new_spec_name, named_spec)
                         ELSE st.out,
                map  |-> DSet(st.map, tag_value, spec_ref),
                log  |-> Append(st.log,
                           IF anonymous
                           THEN [ev |-> "member", name |-> new_spec_name]
                           ELSE [ev |-> "existing",
                                 name |-> RemovePrefix(spec_ref, RefPrefix)]),
                err  |-> ""],
               path, name, discriminator, members, i + 1)

_extract_union_variants(defs, path, name) ==
    LET spec == GetAt(defs, path)
        union_member_specs == spec["anyOf"]
        bad == FirstUnresolved(defs, union_member_specs)
        resolved_specs ==
            [i \in 1..Len(union_member_specs) |->
                GetAt(defs, ResolvedPath(defs, path, union_member_specs, i))]
        found == FindDiscriminator(resolved_specs, 1)
        defining == <<[ev |-> "define", name |-> name, tag |-> found.tag]>>
        built == BuildVariants(
                    [defs |-> defs, out |-> <<>>, map |-> <<>>,
                     log |-> defining, err |-> ""],
                    path, name, found.tag, union_member_specs, 1)
    IN
      IF bad # 0
      THEN Raise(defs, ResolveJsonRef(defs, MemberRef(union_member_specs[bad])).err, <<>>)
      ELSE IF found.err # "" THEN Raise(defs, found.err, <<>>)
      ELSE IF found.tag = <<>>
      THEN IF EndsWith(name, ReturnsSuffix)
           THEN _process_rpc_result_union(defs, path, name)
           ELSE Result(defs, TRUE, <<>>, "", <<>>)
      ELSE IF built.err # "" THEN Raise(built.defs, built.err, built.log)
      ELSE Result(
             SetAt(built.defs, path,
                   SetKey(GetAt(built.defs, path), "discriminator",
                          [mapping |-> built.map, propertyName |-> found.tag])),
             FALSE, built.out, "", built.log)

IsUnion(spec) == Has(spec, "anyOf")
IsArray(spec) == Has(spec, "type") /\ spec["type"] = "array" /\ Has(spec, "items")
IsObject(spec) ==
    Has(spec, "type") /\ spec["type"] = "object" /\ Has(spec, "properties")

RECURSIVE _process_subschema(_, _, _)
RECURSIVE ProcessFields(_, _, _, _)

\* _merge_defs(extracted_defs, <result r of the field's _process_subschema>)
\* and the rest of the loop.  st = [defs, out, log, err]
MergeField(st, r, path, name, f) ==
    IF r.err # "" \/ MergeFails(st.out, r.out)
    THEN [defs |-> r.defs, out |-> st.out, log |-> st.log \o r.log,
          err |-> IF r.err # "" THEN r.err ELSE "RuntimeError:Duplicate"]
    ELSE ProcessFields(
           [defs |-> r.defs, out |-> _merge_defs(st.out, r.out),
            log |-> st.log \o r.log, err |-> ""],
           path, name, f + 1)

\* The field at position f of the loop over field_defs.items()
ProcessField(st, field_name, path, name, f) ==
    IF MakeSpecNameFails(field_name) THEN [st EXCEPT !.err = "IndexError"]
    ELSE MergeField(st,
                    _process_subschema(
                        st.defs,
                        path \o <<Key("properties"), Fld(field_name)>>,
                        _make_spec_name(name, field_name)),
                    path, name, f)

\* The loop over field_defs.items() of the object at path
ProcessFields(st, path, name, f) ==
    IF st.err # "" \/ f > Len(GetAt(st.defs, path)["properties"]) THEN st
    ELSE ProcessField(st, GetAt(st.defs, path)["properties"][f].k, path, name, f)

\* The tail of _process_subschema, given the result u of
\* _extract_union_variants: the anonymous union at path becomes a named
\* union, and a reference takes its place.
NameUnion(u, spec, lines, path, name) ==
    IF u.err # "" THEN u
    ELSE IF u.none THEN Result(u.defs, TRUE, <<>>, "", u.log)
    ELSE IF MergeFails(<<[k |-> name, v |-> spec]>>, u.out)
    THEN Raise(SetAt(u.defs, path, RefSpec(DefRef(name))),
               "RuntimeError:Duplicate", lines)
    ELSE Result(SetAt(u.defs, path, RefSpec(DefRef(name))), FALSE,
                _merge_defs(<<[k |-> name, v |-> spec]>>, u.out), "", lines)

NameUnionAt(u, path, name) ==
    NameUnion(u, GetAt(u.defs, path),
              Append(u.log, [ev |-> "union", name |-> name]), path, name)

ExtractNamedUnion(defs, path, name) ==
    NameUnionAt(_extract_union_variants(defs, path, name), path, name)

FieldsResult(done) == Result(done.defs, FALSE, done.out, done.err, done.log)

ProcessShape(defs, spec, path, name) ==
    IF IsUnion(spec) THEN ExtractNamedUnion(defs, path, name)
    ELSE IF IsArray(spec)
    THEN _process_subschema(defs, Append(path, Key("items")), name \o <<"Item">>)
    ELSE IF IsObject(spec)
    THEN FieldsResult(ProcessFields(
                        [defs |-> defs, out |-> <<>>, log |-> <<>>, err |-> ""],
                        path, name, 1))
    ELSE Result(defs, TRUE, <<>>, "", <<>>)

_process_subschema(defs, path, name) ==
    ProcessShape(defs, GetAt(defs, path), path, name)

_process_named_spec(defs, name) ==
    IF IsUnion(DGet(defs, name))
    THEN _extract_union_variants(defs, <<Fld(name)>>, name)
    ELSE _process_subschema(defs, <<Fld(name)>>, name)

-----------------------------------------------------------------------------
(* The documents the inference is run on *)

MaxMembers == 2     \* members of a union under test
MaxRuns == 2        \* inference runs, each on the previous run's document

Entry(k, v) == [k |-> k, v |-> v]
StringConst(c) == [type |-> "string", const |-> c]
ObjectSpec(props) == [type |-> "object", properties |-> props]
UnionSpec(members) == [anyOf |-> members]
ArraySpec(item) == [type |-> "array", items |-> item]

_EXCLUDE_EXPORTED_SCHEMAS ==
    <<<<"llmContextReference", "JsonFile">>, <<"llmContextReference", "YamlFile">>>>

ExcludedDefs ==
    <<Entry(_EXCLUDE_EXPORTED_SCHEMAS[1], [type |-> "object"]),
      Entry(_EXCLUDE_EXPORTED_SCHEMAS[2], [type |-> "object"])>>

\* an inline object member whose property f is the string constant c
Variant(f, c) ==
    ObjectSpec(<<Entry(<<f>>, StringConst(<<c>>)),
                 Entry(IF c = "circle" THEN <<"radius">> ELSE <<"side">>,
                       [type |-> "number"])>>)

\* a member whose "type" property is a reference (it has no "type" key) and
\* whose "role" property is a string constant
UntypedTagVariant ==
    ObjectSpec(<<Entry(<<"type">>, RefSpec(DefRef(<<"Circle">>))),
                 Entry(<<"role">>, StringConst(<<"square">>))>>)

\* an inline member that itself holds an anonymous union
NestingVariant ==
    ObjectSpec(<<Entry(<<"type">>, StringConst(<<"a">>)),
                 Entry(<<"inner">>, UnionSpec(<<Variant("type", "x")>>))>>)

Members ==
    { RefSpec(DefRef(<<"Circle">>)),
      Variant("type", "square"), Variant("type", "Square"),
      Variant("kind", "square"), Variant("role", "square"),
      ObjectSpec(<<Entry(<<"type">>, StringConst(<<"square">>))>>),
      ObjectSpec(<<Entry(<<"type">>, [type |-> "string"])>>),
      UntypedTagVariant, NestingVariant,
      [type |-> "string"], NullSpec, VoidSpec }

RECURSIVE ListsOf(_, _)
ListsOf(S, n) ==
    IF n = 0 THEN {<<>>}
    ELSE {Append(l, m) : l \in ListsOf(S, n - 1), m \in S}

MemberLists == UNION {ListsOf(Members, n) : n \in 1..MaxMembers}

UnionNames == {<<"Shape">>, <<"Foo", "/", "returns">>}

Targets == {Variant("type", "circle"), Variant("kind", "circle"),
            Variant("role", "circle")}

\* a named union, and the definition its reference member names
UnionDocs ==
    { <<Entry(n, UnionSpec(ms)), Entry(<<"Circle">>, c)>> \o ExcludedDefs :
        n \in UnionNames, ms \in MemberLists, c \in Targets }

NestedUnions ==
    { UnionSpec(<<Variant("type", "square"), Variant("type", "circle")>>),
      UnionSpec(<<Variant("role", "square")>>),
      UnionSpec(<<Variant("kind", "square")>>),
      UnionSpec(<<VoidSpec, [type |-> "string"]>>),
      UnionSpec(<<UntypedTagVariant>>),
      UnionSpec(<<NestingVariant>>) }

Holders ==
    UNION { { ObjectSpec(<<Entry(<<"p">>, u)>>),
              ArraySpec(u),
              ObjectSpec(<<Entry(<<"p">>, ArraySpec(u)), Entry(<<"q">>, u)>>),
              ObjectSpec(<<Entry(<<"a">>, u), Entry(<<"A">>, u)>>) } :
            u \in NestedUnions }

\* anonymous unions below a named object or array
NestedDocs ==
    { <<Entry(n, h)>> \o ExcludedDefs :
        n \in {<<"H">>, <<"Foo", "/", "returns">>}, h \in Holders }

\* Documents in which the inference names the unions of the properties
\* jsonFile and yamlFile of llmContextReference, so that its output again
\* holds the definitions a run starts by deleting.
ContextDocs ==
    { ExcludedDefs
        \o <<Entry(<<"llmContextReference">>,
                   ObjectSpec(<<Entry(<<"jsonFile">>, UnionSpec(<<mj>>)),
                                Entry(<<"yamlFile">>, UnionSpec(<<my>>))>>))>>
        \o extra :
        mj \in {Variant("type", "a"), NestingVariant},
        my \in {Variant("type", "a"), NestingVariant},
        extra \in { <<>>,
                    <<Entry(<<"Foo", "/", "returns">>,
                            UnionSpec(<<VoidSpec, [type |-> "string"]>>))>>,
                    <<Entry(<<"Shape">>,
                            UnionSpec(<<Variant("type", "square"),
                                        Variant("type", "circle")>>))>> } }

\* a document without the definitions the run deletes first
BareDocs == { <<Entry(<<"Shape">>, UnionSpec(<<Variant("type", "square")>>))>> }

Docs == UnionDocs \cup NestedDocs \cup ContextDocs \cup BareDocs

-----------------------------------------------------------------------------
(* The inference run *)

InferInit ==
    /\ schema \in Docs
    /\ input = schema
    /\ first = <<>>
    /\ new_defs = <<>>
    /\ idx = 0
    /\ pc = "start"
    /\ err = ""
    /\ log = <<>>
    /\ run = 1
    /\ GenIdle
    /\ MainIdle

\* for excluded_def in _EXCLUDE_EXPORTED_SCHEMAS: del schema_defs[excluded_def]
RECURSIVE DeleteExcluded(_, _)
DeleteExcluded(defs, i) ==
    IF i > Len(_EXCLUDE_EXPORTED_SCHEMAS) THEN [defs |-> defs, err |-> ""]
    ELSE IF ~DHas(defs, _EXCLUDE_EXPORTED_SCHEMAS[i])
         THEN [defs |-> defs, err |-> "KeyError:Excluded"]
         ELSE DeleteExcluded(DDel(defs, _EXCLUDE_EXPORTED_SCHEMAS[i]), i + 1)

\* _process_schema, up to the loop over the definitions
StartProcessSchema ==
    /\ pc = "start"
    /\ LET d == DeleteExcluded(schema, 1) IN
        /\ schema' = d.defs
        /\ err' = d.err
        /\ pc' = IF d.err = "" THEN "loop" ELSE "error"
        /\ idx' = IF d.err = "" THEN 1 ELSE 0
    /\ new_defs' = <<>>
    /\ UNCHANGED <<log, run, input, first>>
    /\ UNCHANGED <<genVars, mainVars>>

\* _merge_defs(new_defs, r) for the result r of _process_named_spec
MergeProcessed(r, failed) ==
    /\ schema' = r.defs
    /\ log' = log \o r.log
    /\ err' = IF r.err # "" THEN r.err
              ELSE IF failed THEN "RuntimeError:Duplicate" ELSE ""
    /\ pc' = IF failed THEN "error" ELSE "loop"
    /\ new_defs' = IF failed THEN new_defs ELSE _merge_defs(new_defs, r.out)
    /\ idx' = IF failed THEN idx ELSE idx + 1

MergeResult(r) == MergeProcessed(r, r.err # "" \/ MergeFails(new_defs, r.out))

\* one iteration of: for name, spec in schema_defs.items():
\*     _merge_defs(new_defs, self._process_named_spec(name, spec))
ProcessDefinition ==
    /\ pc = "loop"
    /\ idx <= Len(schema)
    /\ MergeResult(_process_named_spec(schema, schema[idx].k))
    /\ UNCHANGED <<run, input, first>>
    /\ UNCHANGED <<genVars, mainVars>>

\* _merge_defs(schema_defs, new_defs); self._processed = True
MergeNewDefs ==
    /\ pc = "loop"
    /\ idx > Len(schema)
    /\ IF MergeFails(schema, new_defs)
       THEN /\ pc' = "error"
            /\ err' = "RuntimeError:Duplicate"
            /\ UNCHANGED schema
       ELSE /\ pc' = "done"
            /\ schema' = _merge_defs(schema, new_defs)
            /\ UNCHANGED err
    /\ UNCHANGED <<new_defs, idx, log, run, input, first>>
    /\ UNCHANGED <<genVars, mainVars>>

\* A new _SchemaProcessor is constructed on the document the finished run
\* produced.
LoadInferred ==
    /\ pc = "done"
    /\ run < MaxRuns
    /\ run' = run + 1
    /\ first' = IF run = 1 THEN schema ELSE first
    /\ pc' = "start"
    /\ new_defs' = <<>>
    /\ idx' = 0
    /\ log' = <<>>
    /\ UNCHANGED <<schema, err, input>>
    /\ UNCHANGED <<genVars, mainVars>>

InferNext ==
    \/ StartProcessSchema
    \/ ProcessDefinition
    \/ MergeNewDefs
    \/ LoadInferred

SpecInfer == InferInit /\ [][InferNext]_vars

-----------------------------------------------------------------------------
(* The generated data model source: _generate_data_model_from_json_schema *)
(*                                                                         *)
(* The module is the list of its top-level statements.  An expression is a *)
(* record tagged by its ast class.  The regular expression substitution on *)
(* the source text only touches \p{...} character classes inside string    *)
(* constants, which the names and references modelled here never contain.  *)

Name(id) == [e |-> "Name", id |-> id]
Str(value) == [e |-> "Constant", value |-> value]
NoneConst == [e |-> "None"]
BitOr(left, right) == [e |-> "BinOp", left |-> left, right |-> right]
Subscript(value, slice) == [e |-> "Subscript", value |-> value, slice |-> slice]
TupleOf(elts) == [e |-> "Tuple", elts |-> elts]
Call(func) == [e |-> "Call", func |-> func]
LoadCtx == [e |-> "Load"]
BitOrOp == [e |-> "BitOr"]

Field(target, ann) == [target |-> Name(target), ann |-> ann]

\* doc is <<>> for a class without docstring, <<text>> otherwise
ClassDef(name, bases, kw_only, doc, fields) ==
    [s |-> "ClassDef", name |-> name, bases |-> bases, kw_only |-> kw_only,
     doc |-> doc, fields |-> fields]
Assign(alias, value) == [s |-> "Assign", target |-> Name(alias), value |-> value]
ImportFrom == [s |-> "ImportFrom"]

_DATA_MODEL_NAME_OVERRIDES ==
    (<<"ChatMessageData">> :> <<"AnyChatMessage">>)
    @@ (<<"ChatMessageData", "User">> :> <<"User", "Message">>)
    @@ (<<"ChatMessageData", "User", "Dict">> :> <<"User", "Message", "Dict">>)
    @@ (<<"LlmRpcGetLoadConfigReturns">> :> <<"SerializedKVConfigSettings">>)
    @@ (<<"LlmRpcGetLoadConfigReturns", "Dict">> :>
            <<"SerializedKVConfigSettings", "Dict">>)

\* dict.get(name, default)
GetOr(d, k, default) == IF k \in DOMAIN d THEN d[k] ELSE default

Override(name) == GetOr(_DATA_MODEL_NAME_OVERRIDES, name, name)

\* the names hasattr(builtins, name) holds for, among those of the model
Builtins == {<<"str">>, <<"int">>, <<"float">>, <<"bool">>, <<"dict">>, <<"list">>}

DictSuffix == <<"Dict">>

(* the first loop: for node in ast.walk(model_ast) *)

\* a string constant left as generated
KeepConstant(expr) == expr

\* case ast.Constant(value=name): a constant that is exactly a key
RenameConstant(expr) == Str(Override(expr.value))

RECURSIVE RenameExpr(_)
RenameExpr(expr) ==
    CASE expr.e = "Name" -> Name(Override(expr.id))
      [] expr.e = "Constant" -> RenameConstant(expr)
      [] expr.e = "BinOp" -> BitOr(RenameExpr(expr.left), RenameExpr(expr.right))
      [] expr.e = "Subscript" ->
            Subscript(RenameExpr(expr.value), RenameExpr(expr.slice))
      [] expr.e = "Tuple" ->
            TupleOf([i \in 1..Len(expr.elts) |-> RenameExpr(expr.elts[i])])
      [] expr.e = "Call" -> Call(RenameExpr(expr.func))
      [] OTHER -> expr

\* The walk renames every Name and every Constant of a statement; a class
\* name is a plain string attribute, which the walk does not see.
RenameStmt(stmt) ==
    CASE stmt.s = "ClassDef" ->
            [stmt EXCEPT
                !.bases = [i \in 1..Len(stmt.bases) |-> RenameExpr(stmt.bases[i])],
                !.doc = [i \in 1..Len(stmt.doc) |-> Override(stmt.doc[i])],
                !.fields = [i \in 1..Len(stmt.fields) |->
                               [target |-> RenameExpr(stmt.fields[i].target),
                                ann |-> RenameExpr(stmt.fields[i].ann)]]]
      [] stmt.s = "Assign" ->
            [stmt EXCEPT !.target = RenameExpr(stmt.target),
                         !.value = RenameExpr(stmt.value)]
      [] OTHER -> stmt

RenameWalk(stmts) == [i \in 1..Len(stmts) |-> RenameStmt(stmts[i])]

(* str.replace on atom sequences *)

StartsAt(text, old, i) ==
    /\ i + Len(old) - 1 <= Len(text)
    /\ SubSeq(text, i, i + Len(old) - 1) = old

RECURSIVE ReplaceFrom(_, _, _, _)
ReplaceFrom(text, old, new, i) ==
    IF i > Len(text) THEN <<>>
    ELSE IF StartsAt(text, old, i)
         THEN new \o ReplaceFrom(text, old, new, i + Len(old))
         ELSE <<text[i]>> \o ReplaceFrom(text, old, new, i + 1)

\* text.replace(old, new), old not empty
Replace(text, old, new) == ReplaceFrom(text, old, new, 1)

Contains(text, old) == \E i \in 1..Len(text) : StartsAt(text, old, i)

(* ast.walk over a union expression *)

Children(expr) ==
    CASE expr.e = "Name" -> <<LoadCtx>>
      [] expr.e = "BinOp" -> <<expr.left, BitOrOp, expr.right>>
      [] expr.e = "Subscript" -> <<expr.value, expr.slice, LoadCtx>>
      [] expr.e = "Tuple" -> expr.elts \o <<LoadCtx>>
      [] expr.e = "Call" -> <<expr.func>>
      [] OTHER -> <<>>

\* breadth first, as ast.walk
RECURSIVE WalkQueue(_)
WalkQueue(todo) ==
    IF Len(todo) = 0 THEN <<>>
    ELSE <<Head(todo)>> \o WalkQueue(Tail(todo) \o Children(Head(todo)))

AstWalk(expr) == WalkQueue(<<expr>>)

IsMappingSubscript(c) ==
    c.e = "Subscript" /\ c.value = Name(<<"Mapping">>)

IsStructural(c) ==
    \/ c.e \in {"BinOp", "BitOr", "Load", "Store"}
    \/ c.e = "Tuple" /\ c.elts = <<Name(<<"str">>), Name(<<"str">>)>>

\* The loop over ast.walk(union_node).
\* st = [named, other, optional, needs, err]
RECURSIVE ScanUnion(_, _, _, _)
ScanUnion(st, nodes, replacements, i) ==
    IF i > Len(nodes) \/ st.err # "" THEN st
    ELSE LET c == nodes[i] IN
        ScanUnion(
            IF c.e = "Name"
            THEN [st EXCEPT !.named = Append(st.named, c.id),
                            !.needs = st.needs \/ c.id \in DOMAIN replacements]
            ELSE IF IsMappingSubscript(c)
            THEN [st EXCEPT !.other = Append(st.other, c)]
            ELSE IF c.e = "None" THEN [st EXCEPT !.optional = TRUE]
            ELSE IF IsStructural(c) THEN st
            ELSE [st EXCEPT !.err = "RuntimeError:UnionShape"],
            nodes, replacements, i + 1)

RECURSIVE OrAll(_, _)
OrAll(acc, rest) ==
    IF Len(rest) = 0 THEN acc ELSE OrAll(BitOr(acc, Head(rest)), Tail(rest))

\* the value of the dict alias: the named members through the replacement
\* table, then the Mapping members, then None
DictUnion(u, replacements) ==
    OrAll(Name(GetOr(replacements, u.named[1], u.named[1])),
          [i \in 1..(Len(u.named) - 1) |->
              Name(GetOr(replacements, u.named[i + 1], u.named[i + 1]))]
          \o u.other
          \o (IF u.optional THEN <<NoneConst>> ELSE <<>>))

(* the second loop: for body_idx, node in enumerate(model_ast.body) *)

\* gs = [body, declared_structs, dict_token_replacements, exported_names,
\*       additional_nodes, err]
GenState(stmts, structs, replacements, exported, additional, error) ==
    [body |-> stmts, declared_structs |-> structs,
     dict_token_replacements |-> replacements, exported_names |-> exported,
     additional_nodes |-> additional, err |-> error]

GenRaise(gs, error) == [gs EXCEPT !.err = error]

\* the docstring fix of a renamed dict class
FixDocstring(node, generated_name, name) ==
    [node EXCEPT !.doc = <<Replace(node.doc[1], generated_name, name)>>]

\* case ast.ClassDef(name=name), for a name that ends with "Dict"
ScanDictClass(gs, i, node, generated_name, name, overridden) ==
    IF RemoveSuffix(name, DictSuffix) \notin gs.declared_structs
    THEN GenRaise(gs, "AssertionError")
    ELSE IF overridden /\ Len(node.doc) = 0
    THEN GenRaise(gs, "AssertionError")
    ELSE [gs EXCEPT
            !.body[i] = IF overridden
                        THEN FixDocstring([node EXCEPT !.name = name],
                                          generated_name, name)
                        ELSE node,
            !.exported_names = Append(gs.exported_names, name),
            !.dict_token_replacements =
                (RemoveSuffix(name, DictSuffix) :> name)
                @@ gs.dict_token_replacements]

\* case ast.ClassDef(name=name)
ScanClassNamed(gs, i, node, generated_name, name) ==
    IF EndsWith(name, DictSuffix)
    THEN ScanDictClass(gs, i, node, generated_name, name, name # generated_name)
    ELSE [gs EXCEPT !.body[i] = [node EXCEPT !.name = name],
                    !.exported_names = Append(gs.exported_names, name),
                    !.declared_structs = gs.declared_structs \cup {name}]

ScanClass(gs, i) ==
    ScanClassNamed(gs, i, gs.body[i], gs.body[i].name, Override(gs.body[i].name))

IsSimpleAliasValue(expr) ==
    \/ expr.e = "Name"
    \/ /\ expr.e = "Subscript"
       /\ expr.value = Name(<<"Annotated">>)
       /\ expr.slice.e = "Tuple"
       /\ Len(expr.slice.elts) >= 1
       /\ expr.slice.elts[1].e = "Name"

AliasedName(expr) ==
    IF expr.e = "Name" THEN expr.id ELSE expr.slice.elts[1].id

\* case ast.Name(id=name) | ast.Subscript(value=ast.Name(id="Annotated"), ...)
ScanSimpleAlias(gs, alias, name) ==
    IF name \in Builtins
    THEN [gs EXCEPT !.dict_token_replacements =
                        (alias :> name) @@ gs.dict_token_replacements]
    ELSE IF name \in DOMAIN gs.dict_token_replacements
    THEN [gs EXCEPT !.dict_token_replacements =
                        (alias :> gs.dict_token_replacements[name])
                        @@ gs.dict_token_replacements]
    ELSE gs

\* the end of case ast.BinOp(op=ast.BitOr()), given the result of the walk
DefineDictAlias(gs, i, alias, u) ==
    IF u.err # "" THEN GenRaise(gs, u.err)
    ELSE IF ~u.needs THEN gs
    ELSE [gs EXCEPT
            !.dict_token_replacements =
                (alias :> alias \o DictSuffix) @@ gs.dict_token_replacements,
            !.additional_nodes =
                Append(gs.additional_nodes,
                       [at |-> i,
                        node |-> Assign(alias \o DictSuffix,
                                    DictUnion(u, (alias :> alias \o DictSuffix)
                                                 @@ gs.dict_token_replacements))])]

EmptyUnionScan ==
    [named |-> <<>>, other |-> <<>>, optional |-> FALSE, needs |-> FALSE,
     err |-> ""]

ScanUnionAlias(gs, i, alias, expr) ==
    DefineDictAlias(gs, i, alias,
        ScanUnion(EmptyUnionScan, AstWalk(expr), gs.dict_token_replacements, 1))

IsAliasAssign(node) == node.s = "Assign" /\ node.target.e = "Name"

\* one iteration of the loop
ScanNode(gs, i) ==
    CASE gs.body[i].s = "ClassDef" -> ScanClass(gs, i)
      [] IsAliasAssign(gs.body[i]) /\ IsSimpleAliasValue(gs.body[i].value) ->
            ScanSimpleAlias(gs, gs.body[i].target.id,
                            AliasedName(gs.body[i].value))
      [] IsAliasAssign(gs.body[i]) /\ gs.body[i].value.e = "BinOp" ->
            ScanUnionAlias(gs, i, gs.body[i].target.id, gs.body[i].value)
      [] OTHER -> gs

\* for insertion_idx, node in reversed(additional_nodes):
\*     model_ast.body[insertion_idx:insertion_idx] = (node,)
RECURSIVE InsertNodes(_, _, _)
InsertNodes(stmts, additional, k) ==
    IF k = 0 THEN stmts
    ELSE InsertNodes(SubSeq(stmts, 1, additional[k].at)
                        \o <<additional[k].node>>
                        \o SubSeq(stmts, additional[k].at + 1, Len(stmts)),
                     additional, k - 1)

(* ast.unparse followed by tokenize.generate_tokens *)

Tok(type, string) == [type |-> type, string |-> string]
Op(c) == Tok("OP", <<c>>)
Kw(w) == Tok("NAME", <<w>>)
NEWLINE == Tok("NEWLINE", <<>>)
INDENT == Tok("INDENT", <<>>)
DEDENT == Tok("DEDENT", <<>>)

RECURSIVE ExprTokens(_)
RECURSIVE JoinTokens(_, _)
JoinTokens(exprs, i) ==
    IF i > Len(exprs) THEN <<>>
    ELSE (IF i > 1 THEN <<Op(",")>> ELSE <<>>)
         \o ExprTokens(exprs[i]) \o JoinTokens(exprs, i + 1)

ExprTokens(expr) ==
    CASE expr.e = "Name" -> <<Tok("NAME", expr.id)>>
      [] expr.e = "Constant" -> <<Tok("STRING", expr.value)>>
      [] expr.e = "None" -> <<Kw("None")>>
      [] expr.e = "BinOp" ->
            ExprTokens(expr.left) \o <<Op("|")>> \o ExprTokens(expr.right)
      [] expr.e = "Subscript" ->
            ExprTokens(expr.value) \o <<Op("[")>> \o ExprTokens(expr.slice)
            \o <<Op("]")>>
      [] expr.e = "Tuple" -> JoinTokens(expr.elts, 1)
      [] expr.e = "Call" -> ExprTokens(expr.func) \o <<Op("("), Op(")")>>
      [] OTHER -> <<>>

RECURSIVE FieldTokens(_, _)
FieldTokens(fields, i) ==
    IF i > Len(fields) THEN <<>>
    ELSE ExprTokens(fields[i].target) \o <<Op(":")>> \o ExprTokens(fields[i].ann)
         \o <<NEWLINE>> \o FieldTokens(fields, i + 1)

ClassTokens(node) ==
    <<Kw("class"), Tok("NAME", node.name), Op("(")>>
    \o JoinTokens(node.bases, 1)
    \o (IF node.kw_only THEN <<Op(","), Kw("kw_only"), Op("="), Kw("True")>>
        ELSE <<>>)
    \o <<Op(")"), Op(":"), NEWLINE, INDENT>>
    \o (IF Len(node.doc) = 0 THEN <<>>
        ELSE <<Tok("STRING", node.doc[1]), NEWLINE>>)
    \o FieldTokens(node.fields, 1)
    \o <<DEDENT>>

StmtTokens(node) ==
    CASE node.s = "ClassDef" -> ClassTokens(node)
      [] node.s = "Assign" ->
            ExprTokens(node.target) \o <<Op("=")>> \o ExprTokens(node.value)
            \o <<NEWLINE>>
      [] OTHER ->
            <<Kw("from"), Kw("typing"), Kw("import"), Kw("Mapping"), NEWLINE>>

RECURSIVE ModuleTokens(_, _)
ModuleTokens(stmts, i) ==
    IF i > Len(stmts) THEN <<>>
    ELSE StmtTokens(stmts[i]) \o ModuleTokens(stmts, i + 1)

(* the loop over the tokens of the written source *)

\* the loop body without the stop at the dedent: replacement stays on
RewriteTokenPastDedent(rs, t, replacements) ==
    IF rs.checking_class_header
    THEN IF t.type # "NAME" THEN [rs EXCEPT !.err = "AssertionError"]
         ELSE [rs EXCEPT !.out = Append(rs.out, t),
                         !.processing_typed_dict =
                             rs.processing_typed_dict
                             \/ EndsWith(t.string, DictSuffix),
                         !.checking_class_header = FALSE]
    ELSE IF rs.processing_typed_dict /\ t.type = "NAME"
    THEN [rs EXCEPT !.out =
             Append(rs.out,
                    [t EXCEPT !.string = GetOr(replacements, t.string,
                                               t.string)])]
    ELSE [rs EXCEPT !.out = Append(rs.out, t),
                    !.checking_class_header =
                        t.type = "NAME" /\ t.string = <<"class">>]

\* rs = [out, checking_class_header, processing_typed_dict, err]
RewriteToken(rs, t, replacements) ==
    IF rs.checking_class_header
    THEN IF t.type # "NAME" THEN [rs EXCEPT !.err = "AssertionError"]
         ELSE [rs EXCEPT !.out = Append(rs.out, t),
                         !.processing_typed_dict =
                             rs.processing_typed_dict
                             \/ EndsWith(t.string, DictSuffix),
                         !.checking_class_header = FALSE]
    ELSE IF rs.processing_typed_dict
    THEN IF t.type = "DEDENT"
         THEN [rs EXCEPT !.out = Append(rs.out, t),
                         !.processing_typed_dict = FALSE]
         ELSE IF t.type = "NAME"
         THEN [rs EXCEPT !.out =
                  Append(rs.out,
                         [t EXCEPT !.string = GetOr(replacements, t.string,
                                                    t.string)])]
         ELSE [rs EXCEPT !.out = Append(rs.out, t)]
    ELSE [rs EXCEPT !.out = Append(rs.out, t),
                    !.checking_class_header =
                        t.type = "NAME" /\ t.string = <<"class">>]

RECURSIVE RewriteTokens(_, _, _, _)
RewriteTokens(rs, toks, replacements, i) ==
    IF i > Len(toks) \/ rs.err # "" THEN rs
    ELSE RewriteTokens(RewriteToken(rs, toks[i], replacements), toks,
                       replacements, i + 1)

\* the tokens of the statements, one statement after the other
RECURSIVE RewriteModule(_, _, _, _)
RewriteModule(rs, stmts, replacements, i) ==
    IF i > Len(stmts) \/ rs.err # "" THEN rs
    ELSE RewriteModule(RewriteTokens(rs, StmtTokens(stmts[i]), replacements, 1),
                       stmts, replacements, i + 1)

StartRewrite ==
    [out |-> <<>>, checking_class_header |-> FALSE,
     processing_typed_dict |-> FALSE, err |-> ""]

(* tokenize.untokenize(...).splitlines(): a line is its indentation depth *)
(* and its tokens                                                         *)

Line(indent, toks) == [indent |-> indent, toks |-> toks]

IsLayout(t) == t.type \in {"INDENT", "DEDENT"}
NotLayout(t) == ~IsLayout(t)

Count(toks, type, p) == Cardinality({q \in 1..p : toks[q].type = type})

\* the places of the NEWLINE tokens, in order
NewlinePlaces(toks) ==
    SelectSeq([p \in 1..Len(toks) |-> p], LAMBDA p : toks[p].type = "NEWLINE")

\* one line for each NEWLINE token, indented by the depth of its block
LinesBetween(toks, ends) ==
    [k \in 1..Len(ends) |->
        Line(Count(toks, "INDENT", ends[k]) - Count(toks, "DEDENT", ends[k]),
             SelectSeq(SubSeq(toks, IF k = 1 THEN 1 ELSE ends[k - 1] + 1,
                              ends[k] - 1),
                       NotLayout))]

SplitLines(toks) == LinesBetween(toks, NewlinePlaces(toks))

\* line.startswith("class")
StartsWithClass(line) ==
    /\ line.indent = 0
    /\ Len(line.toks) > 0
    /\ Len(line.toks[1].string) > 0
    /\ line.toks[1].string[1] = "class"

\* the value of idx after the loop over the lines: the first line that
\* starts with "class", the last line if there is none
RECURSIVE FirstClassLine(_, _)
FirstClassLine(lines, i) ==
    IF i >= Len(lines) \/ StartsWithClass(lines[i]) THEN i
    ELSE FirstClassLine(lines, i + 1)

\* the atoms of the names, in the order of their text
AtomOrder ==
    <<"Alias", "AnyChatMessage", "Cfg", "ChatMessageData", "Dict", "Foo",
      "Fwd", "LlmRpcGetLoadConfigReturns", "Message", "Mixed", "Num", "Opt", "Plain",
      "Seq", "SerializedKVConfigSettings", "Text", "User">>

AtomRank(atom) == CHOOSE i \in 1..Len(AtomOrder) : AtomOrder[i] = atom

\* a < b for two names; no atom is a prefix of another, so the order of the
\* texts is the lexicographic order of the atom sequences
RECURSIVE NameLess(_, _)
NameLess(a, b) ==
    IF Len(a) = 0 THEN Len(b) > 0
    ELSE IF Len(b) = 0 THEN FALSE
    ELSE IF Head(a) = Head(b) THEN NameLess(Tail(a), Tail(b))
    ELSE AtomRank(Head(a)) < AtomRank(Head(b))

Sorted(names) == SortSeq(names, NameLess)

\* lines_to_insert
AllLines(names) ==
    <<Line(0, <<Tok("NAME", <<"__all__">>), Op("="), Op("[")>>)>>
    \o [i \in 1..Len(names) |-> Line(1, <<Tok("STRING", names[i]), Op(",")>>)]
    \o <<Line(0, <<Op("]")>>), Line(0, <<>>), Line(0, <<>>)>>

\* updated_source_lines[idx:idx] = lines_to_insert
InsertAll(lines, names) ==
    SubSeq(lines, 1, FirstClassLine(lines, 1) - 1)
    \o AllLines(Sorted(names))
    \o SubSeq(lines, FirstClassLine(lines, 1), Len(lines))

-----------------------------------------------------------------------------
(* The generated modules the post-processing is run on *)

MaxAliases == 2     \* union and struct aliases of a generated module

CMD == <<"ChatMessageData">>
CMDUser == <<"ChatMessageData", "User">>
LlmReturns == <<"LlmRpcGetLoadConfigReturns">>

\* the struct class and the dict class the templates emit for a schema
StructClass(name, doc, fields) ==
    ClassDef(name,
             <<Subscript(Name(<<"LMStudioStruct">>), Str(name \o DictSuffix))>>,
             TRUE, doc, fields)

DictClass(name, fields) ==
    ClassDef(name \o DictSuffix, <<Name(<<"TypedDict">>)>>, FALSE,
             <<<<"Corresponding typed dictionary definition for ">> \o name
               \o <<".">>>>,
             fields)

ClassPair(name, doc, fields) ==
    <<StructClass(name, doc, fields), DictClass(name, fields)>>

\* aliases declared before the classes: of builtin types, or of a struct
\* class that the module declares further down
EarlyAliases ==
    { <<>>,
      <<Assign(<<"Fwd">>, Name(CMDUser))>>,
      <<Assign(<<"Num">>, Name(<<"int">>))>>,
      <<Assign(<<"Text">>,
               Subscript(Name(<<"Annotated">>),
                         TupleOf(<<Name(<<"str">>), Call(Name(<<"Meta">>))>>)))>>,
      <<Assign(<<"Num">>, Name(<<"int">>)),
        Assign(<<"Text">>,
               Subscript(Name(<<"Annotated">>),
                         TupleOf(<<Name(<<"str">>), Call(Name(<<"Meta">>))>>)))>> }

MappingStrStr ==
    Subscript(Name(<<"Mapping">>), TupleOf(<<Name(<<"str">>), Name(<<"str">>)>>))

\* aliases declared after the classes they name
LateAliases ==
    <<Assign(CMD, BitOr(Name(CMDUser), Name(LlmReturns))),
      Assign(<<"Cfg">>, BitOr(Name(CMDUser), MappingStrStr)),
      Assign(<<"Opt">>, BitOr(Name(LlmReturns), NoneConst)),
      Assign(<<"Plain">>, BitOr(Name(<<"int">>), Name(<<"str">>))),
      Assign(<<"Mixed">>, BitOr(Name(<<"Num">>), Name(<<"str">>))),
      Assign(<<"Seq">>,
             BitOr(Subscript(Name(<<"Sequence">>), Name(CMDUser)), NoneConst)),
      Assign(<<"User", "Alias">>, Name(CMDUser))>>

Declares(stmts, name) ==
    \E i \in 1..Len(stmts) : stmts[i].s = "Assign" /\ stmts[i].target.id = name

\* the aliases at the places of chosen, in the order of LateAliases
RECURSIVE Chosen(_, _)
Chosen(chosen, i) ==
    IF i > Len(LateAliases) THEN <<>>
    ELSE (IF i \in chosen THEN <<LateAliases[i]>> ELSE <<>>)
         \o Chosen(chosen, i + 1)

LateAliasLists ==
    { Chosen(chosen, 1) :
        chosen \in { c \in SUBSET (1..Len(LateAliases)) :
                       Cardinality(c) <= MaxAliases } }

\* the docstring of the struct class of ChatMessageDataUser
UserDocs == { <<>>, <<<<"A message sent as ">> \o CMDUser>> }

\* what a field of the last class pair can name
FieldAnnotations(early, late) ==
    { Name(CMDUser), Str(CMDUser), BitOr(Name(LlmReturns), NoneConst) }
    \cup { Name(n) : n \in { m \in { <<"Num">>, <<"Text">>, <<"Fwd">>, CMD,
                                     <<"Cfg">>, <<"Opt">>,
                                     <<"User", "Alias">> } :
                             Declares(early \o late, m) } }

GeneratedModule(early, doc, late, ann) ==
    <<ImportFrom>> \o early
    \o ClassPair(CMDUser, doc, <<Field(<<"role">>, Name(<<"str">>))>>)
    \o ClassPair(LlmReturns, <<>>, <<Field(<<"fields">>, Name(<<"str">>))>>)
    \o late
    \o ClassPair(<<"Foo">>, <<>>, <<Field(<<"x">>, ann)>>)

ModulesOf(early, late) ==
    { GeneratedModule(early, doc, late, ann) :
        ann \in FieldAnnotations(early, late), doc \in UserDocs }

GeneratedModules ==
    UNION { ModulesOf(p[1], p[2]) :
            p \in { q \in EarlyAliases \X LateAliasLists :
                      Declares(q[2], <<"Mixed">>) => Declares(q[1], <<"Num">>) } }

-----------------------------------------------------------------------------
(* The post-processing run *)

\* model_ast = ast.parse(model_source)
GenInit ==
    /\ generated \in GeneratedModules
    /\ body = generated
    /\ dict_token_replacements = <<>>
    /\ exported_names = <<>>
    /\ declared_structs = {}
    /\ additional_nodes = <<>>
    /\ body_idx = 0
    /\ tokens = <<>>
    /\ source = <<>>
    /\ gpc = "walk"
    /\ gerr = ""
    /\ InferIdle
    /\ MainIdle

\* for node in ast.walk(model_ast): override the names
OverrideNames ==
    /\ gpc = "walk"
    /\ body' = RenameWalk(body)
    /\ body_idx' = 1
    /\ gpc' = "scan"
    /\ UNCHANGED <<generated, dict_token_replacements, exported_names,
                   declared_structs, additional_nodes, tokens, source, gerr>>
    /\ UNCHANGED <<inferVars, mainVars>>

\* the state after one iteration of the loop over the top level nodes
Scanned(gs) ==
    /\ body' = gs.body
    /\ declared_structs' = gs.declared_structs
    /\ dict_token_replacements' = gs.dict_token_replacements
    /\ exported_names' = gs.exported_names
    /\ additional_nodes' = gs.additional_nodes
    /\ gerr' = gs.err
    /\ gpc' = IF gs.err # "" THEN "error" ELSE "scan"
    /\ body_idx' = IF gs.err # "" THEN body_idx ELSE body_idx + 1
    /\ UNCHANGED <<generated, tokens, source>>
    /\ UNCHANGED <<inferVars, mainVars>>

Scanning ==
    /\ gpc = "scan"
    /\ body_idx <= Len(body)

CurrentGenState ==
    GenState(body, declared_structs, dict_token_replacements, exported_names,
             additional_nodes, "")

\* case ast.ClassDef(name=name)
ScanClassDef ==
    /\ Scanning
    /\ body[body_idx].s = "ClassDef"
    /\ Scanned(ScanNode(CurrentGenState, body_idx))

\* case ast.Assign(...), alias = name or alias = Annotated[name, ...]
ScanAlias ==
    /\ Scanning
    /\ IsAliasAssign(body[body_idx])
    /\ IsSimpleAliasValue(body[body_idx].value)
    /\ Scanned(ScanNode(CurrentGenState, body_idx))

\* case ast.Assign(...), alias = a | b
ScanUnionAssign ==
    /\ Scanning
    /\ IsAliasAssign(body[body_idx])
    /\ body[body_idx].value.e = "BinOp"
    /\ Scanned(ScanNode(CurrentGenState, body_idx))

\* any other top level node
ScanOther ==
    /\ Scanning
    /\ body[body_idx].s \notin {"ClassDef", "Assign"}
    /\ Scanned(ScanNode(CurrentGenState, body_idx))

\* the insertion of the additional nodes, ast.unparse, and the loop over the
\* tokens of the written file
Rewritten(rs) ==
    /\ tokens' = rs.out
    /\ gerr' = rs.err
    /\ gpc' = IF rs.err # "" THEN "error" ELSE "tokens"

WriteBack ==
    /\ gpc = "scan"
    /\ body_idx > Len(body)
    /\ body' = InsertNodes(body, additional_nodes, Len(additional_nodes))
    /\ Rewritten(RewriteModule(StartRewrite,
            InsertNodes(body, additional_nodes, Len(additional_nodes)),
            dict_token_replacements, 1))
    /\ UNCHANGED <<generated, dict_token_replacements, exported_names,
                   declared_structs, additional_nodes, body_idx, source>>
    /\ UNCHANGED <<inferVars, mainVars>>

\* the insertion of __all__ and the final write of the file
WriteAll ==
    /\ gpc = "tokens"
    /\ source' = InsertAll(SplitLines(tokens), exported_names)
    /\ gpc' = "done"
    /\ UNCHANGED <<generated, body, dict_token_replacements, exported_names,
                   declared_structs, additional_nodes, body_idx, tokens, gerr>>
    /\ UNCHANGED <<inferVars, mainVars>>

GenNext ==
    \/ OverrideNames
    \/ ScanClassDef
    \/ ScanAlias
    \/ ScanUnionAssign
    \/ ScanOther
    \/ WriteBack
    \/ WriteAll

SpecGen == GenInit /\ [][GenNext]_vars

-----------------------------------------------------------------------------
(* The script: _main *)

_SCHEMA_PATH == "lms-json-schema/schemas/lms.json"
_CACHED_SCHEMA_PATH == "lms.json"
_INFERRED_SCHEMA_PATH == "lms-with-inferred-unions.json"
_MODEL_PATH == "_sdk_models/__init__.py"

Paths == {_SCHEMA_PATH, _CACHED_SCHEMA_PATH, _INFERRED_SCHEMA_PATH, _MODEL_PATH}

\* the commands of _export_zod_schemas_to_json_schema, in order
ExportCommands ==
    <<"lmstudio-js: npm install -D", "lmstudio-js: npm run build",
      "lms-json-schema: npm install -D", "lms-json-schema: npm run make-schemas">>

\* the exceptions the union inference ends with
InferenceErrors == {"KeyError", "IndexError", "TypeError", "RuntimeError"}

\* the exceptions the post-processing ends with
PostProcessingErrors == {"AssertionError", "RuntimeError"}

Ran(cmd, returncode) == [cmd |-> cmd, returncode |-> returncode]

MainInit ==
    /\ argv \in {<<>>, <<"--regen-schema">>}
    /\ exists \in [Paths -> BOOLEAN]
    /\ step = 0
    /\ ran = <<>>
    /\ mpc = "main"
    /\ merr = ""
    /\ InferIdle
    /\ GenIdle

Fail(error) ==
    /\ mpc' = "failed"
    /\ merr' = error

\* if sys.argv[1:] == ["--regen-schema"] or not _SCHEMA_PATH.exists()
Main ==
    /\ mpc = "main"
    /\ mpc' = IF argv = <<"--regen-schema">> \/ ~exists[_SCHEMA_PATH]
              THEN "export" ELSE "generate"
    /\ UNCHANGED <<argv, exists, step, ran, merr>>
    /\ UNCHANGED <<inferVars, genVars>>

\* _SCHEMA_PATH.unlink(missing_ok=True); _CACHED_SCHEMA_PATH.unlink(...)
ExportUnlink ==
    /\ mpc = "export"
    /\ exists' = [exists EXCEPT ![_SCHEMA_PATH] = FALSE,
                                ![_CACHED_SCHEMA_PATH] = FALSE]
    /\ step' = 1
    /\ mpc' = "npm"
    /\ UNCHANGED <<argv, ran, merr>>
    /\ UNCHANGED <<inferVars, genVars>>

\* subprocess.run([...]).check_returncode() for one command of the export;
\* the last command is the one that writes _SCHEMA_PATH, or fails to
ExportCommand ==
    /\ mpc = "npm"
    /\ \E returncode \in {0, 1}, written \in BOOLEAN :
        /\ ran' = Append(ran, Ran(ExportCommands[step], returncode))
        /\ exists' = IF step = Len(ExportCommands)
                     THEN [exists EXCEPT ![_SCHEMA_PATH] = written]
                     ELSE exists
        /\ IF returncode # 0 THEN Fail("CalledProcessError") /\ UNCHANGED step
           ELSE /\ step' = step + 1
                /\ mpc' = IF step = Len(ExportCommands) THEN "exported" ELSE "npm"
                /\ UNCHANGED merr
    /\ UNCHANGED argv
    /\ UNCHANGED <<inferVars, genVars>>

\* if not _SCHEMA_PATH.exists(): raise RuntimeError
CheckExported ==
    /\ mpc = "exported"
    /\ IF exists[_SCHEMA_PATH] THEN mpc' = "generate" /\ UNCHANGED merr
       ELSE Fail("RuntimeError")
    /\ UNCHANGED <<argv, exists, step, ran>>
    /\ UNCHANGED <<inferVars, genVars>>

\* if not _CACHED_SCHEMA_PATH.exists(): _cache_json_schema()
CacheJsonSchema ==
    /\ mpc = "generate"
    /\ IF exists[_CACHED_SCHEMA_PATH]
       THEN mpc' = "infer" /\ UNCHANGED <<exists, merr>>
       ELSE IF ~exists[_SCHEMA_PATH]
       THEN Fail("RuntimeError") /\ UNCHANGED exists
       ELSE /\ exists' = [exists EXCEPT ![_CACHED_SCHEMA_PATH] = TRUE]
            /\ mpc' = "infer"
            /\ UNCHANGED merr
    /\ UNCHANGED <<argv, step, ran>>
    /\ UNCHANGED <<inferVars, genVars>>

\* _infer_schema_unions(): the inference ends with the document, which is
\* written to _INFERRED_SCHEMA_PATH, or with an exception
InferSchemaUnions ==
    /\ mpc = "infer"
    /\ IF ~exists[_CACHED_SCHEMA_PATH]
       THEN Fail("RuntimeError") /\ UNCHANGED exists
       ELSE \E error \in {""} \cup InferenceErrors :
            /\ exists' = [exists EXCEPT ![_INFERRED_SCHEMA_PATH] = error = ""]
            /\ IF error = "" THEN mpc' = "codegen" /\ UNCHANGED merr
               ELSE Fail(error)
    /\ UNCHANGED <<argv, step, ran>>
    /\ UNCHANGED <<inferVars, genVars>>

\* _MODEL_PATH.unlink(missing_ok=True); generate(...);
\* if not _MODEL_PATH.exists(): raise RuntimeError
Generate ==
    /\ mpc = "codegen"
    /\ \E raised \in BOOLEAN, written \in BOOLEAN :
        /\ ran' = Append(ran, Ran("generate", IF raised THEN 1 ELSE 0))
        /\ exists' = [exists EXCEPT ![_MODEL_PATH] = written]
        /\ IF raised THEN Fail("Error")
           ELSE IF ~written THEN Fail("RuntimeError")
           ELSE mpc' = "postprocess" /\ UNCHANGED merr
    /\ UNCHANGED <<argv, step>>
    /\ UNCHANGED <<inferVars, genVars>>

\* the post-processing of the generated source ends with the rewritten
\* file, or with an exception
PostProcess ==
    /\ mpc = "postprocess"
    /\ \E error \in {""} \cup PostProcessingErrors :
        IF error = "" THEN mpc' = "format" /\ UNCHANGED merr
        ELSE Fail(error)
    /\ UNCHANGED <<argv, exists, step, ran>>
    /\ UNCHANGED <<inferVars, genVars>>

\* subprocess.run(["tox", "-e", "format"])
Format ==
    /\ mpc = "format"
    /\ \E returncode \in {0, 1} :
        ran' = Append(ran, Ran("tox -e format", returncode))
    /\ mpc' = "done"
    /\ UNCHANGED <<argv, exists, step, merr>>
    /\ UNCHANGED <<inferVars, genVars>>

MainNext ==
    \/ Main
    \/ ExportUnlink
    \/ ExportCommand
    \/ CheckExported
    \/ CacheJsonSchema
    \/ InferSchemaUnions
    \/ Generate
    \/ PostProcess
    \/ Format

SpecMain == MainInit /\ [][MainNext]_vars

-----------------------------------------------------------------------------
(* Properties of the inference *)

\* the first run has finished on the document doc
FinishedOn(doc) == input = doc /\ run = 1 /\ pc = "done"

\* the first run's loop has dealt with the definition named k, by
\* processing it or by raising on it
Handled(k) ==
    /\ run = 1
    /\ \/ pc = "done"
       \/ /\ pc \in {"loop", "error"}
          /\ idx >= 1
          /\ DHas(schema, k)
          /\ \/ DIndex(schema, k) < idx
             \/ pc = "error" /\ DIndex(schema, k) = idx

\* the definitions extracted so far, wherever the run keeps them
Added == IF pc = "done" THEN schema ELSE new_defs

ShapeDoc(f) ==
    <<Entry(<<"Shape">>,
            UnionSpec(<<RefSpec(DefRef(<<"Circle">>)), Variant(f, "square")>>)),
      Entry(<<"Circle">>, Variant(f, "circle"))>> \o ExcludedDefs

ShapeSquare == <<"Shape", "Square">>

ShapeDiscriminator(f) ==
    [propertyName |-> <<f>>,
     mapping |-> <<Entry(<<"circle">>, DefRef(<<"Circle">>)),
                   Entry(<<"square">>, DefRef(ShapeSquare))>>]

\* C1 as stated: on the Shape/Circle document tagged by the property "kind",
\* the finished inference has attached to Shape a discriminator on "kind"
\* mapping circle and square to Circle and ShapeSquare, and ShapeSquare is
\* the original inline square schema.
C1_ShapeOnKind ==
    FinishedOn(ShapeDoc("kind")) =>
        /\ Has(DGet(schema, <<"Shape">>), "discriminator")
        /\ DGet(schema, <<"Shape">>)["discriminator"] = ShapeDiscriminator("kind")
        /\ DHas(schema, ShapeSquare)
        /\ DGet(schema, ShapeSquare) = Variant("kind", "square")

\* the inline square schema once its tag property has its default and title
TaggedSquare ==
    ObjectSpec(<<Entry(<<"type">>,
                       [type |-> "string", const |-> <<"square">>,
                        default |-> <<"square">>, title |-> <<"Type">>]),
                 Entry(<<"side">>, [type |-> "number"])>>)

\* C1, amended: on the Shape/Circle document tagged by the property "type"
\* (a candidate tag field), the finished inference has attached to Shape a
\* discriminator on "type" mapping circle to Circle and square to
\* ShapeSquare, both members of Shape are references, and ShapeSquare is the
\* inline square schema with its tag property completed by the default
\* "square" and the title "Type".
C1_ShapeOnType ==
    FinishedOn(ShapeDoc("type")) =>
        /\ Has(DGet(schema, <<"Shape">>), "discriminator")
        /\ DGet(schema, <<"Shape">>)["discriminator"] = ShapeDiscriminator("type")
        /\ DGet(schema, <<"Shape">>)["anyOf"] =
              <<RefSpec(DefRef(<<"Circle">>)), RefSpec(DefRef(ShapeSquare))>>
        /\ DHas(schema, ShapeSquare)
        /\ DGet(schema, ShapeSquare) = TaggedSquare

C1_Witness ==
    /\ FinishedOn(ShapeDoc("type"))
    /\ DHas(schema, ShapeSquare)

\* C2: a second run, on the document the first run produced, finds and names
\* no anonymous union and no anonymous union member.
C2_SecondRunExtractsNothing ==
    run >= 2 => \A i \in 1..Len(log) : log[i].ev \notin {"member", "union"}

\* The conditions of the specification's detector on one resolved member
DeclaresTag(member, f) ==
    /\ Has(member, "properties")
    /\ DHas(member["properties"], f)
    /\ Has(DGet(member["properties"], f), "type")
    /\ DGet(member["properties"], f)["type"] = "string"
    /\ Has(DGet(member["properties"], f), "const")

LacksField(member, f) ==
    ~Has(member, "properties") \/ ~DHas(member["properties"], f)

\* the members of a top-level union of the input, references resolved
ResolvedMembers(u) ==
    [i \in 1..Len(u["anyOf"]) |->
        IF MemberRef(u["anyOf"][i]) = <<>> THEN u["anyOf"][i]
        ELSE GetAt(input, ResolveJsonRef(input, MemberRef(u["anyOf"][i])).path)]

Candidates == 1..Len(_POTENTIAL_TAG_FIELDS)

AllDeclare(u, t) ==
    \A i \in 1..Len(u["anyOf"]) :
        DeclaresTag(ResolvedMembers(u)[i], _POTENTIAL_TAG_FIELDS[t])

SomeLacks(u, t) ==
    \E i \in 1..Len(u["anyOf"]) :
        LacksField(ResolvedMembers(u)[i], _POTENTIAL_TAG_FIELDS[t])

\* the first candidate every member declares, 0 if there is none
FirstDeclared(u) ==
    IF \E t \in Candidates : AllDeclare(u, t)
    THEN CHOOSE t \in Candidates :
            AllDeclare(u, t) /\ \A s \in Candidates : AllDeclare(u, s) => t <= s
    ELSE 0

IsVoid(m) == m \in {VoidSpec, NullSpec}

\* C3: a top-level union N/returns that no candidate discriminates, once the
\* run has dealt with it: with two members of which exactly one is a no-value
\* encoding, its members are the reference to <N>ReturnValue and the null
\* schema, and <N>ReturnValue is the other member; otherwise it is unchanged
\* and no <N>ReturnValue is extracted.
C3_OptionalResultRewrite ==
    \A i \in 1..Len(input) :
        LET name == input[i].k
            u == input[i].v
            rv == RemoveSuffix(name, ReturnsSuffix) \o <<"ReturnValue">>
            ms == u["anyOf"]
        IN  (/\ EndsWith(name, ReturnsSuffix)
             /\ IsUnion(u)
             /\ FirstDeclared(u) = 0
             /\ Handled(name))
            => IF Len(ms) = 2 /\ IsVoid(ms[1]) # IsVoid(ms[2])
               THEN /\ DGet(schema, name)["anyOf"] = <<RefSpec(DefRef(rv)), NullSpec>>
                    /\ DHas(Added, rv)
                    /\ DGet(Added, rv) = IF IsVoid(ms[1]) THEN ms[2] ELSE ms[1]
               ELSE /\ DGet(schema, name) = u
                    /\ ~DHas(Added, rv)

\* C4: for every top-level union of the input, the detector answers True for
\* a candidate that every member declares as a string constant and False for
\* a candidate that some member lacks; and once the run has dealt with the
\* union, it is discriminated on the first candidate all members declare, or
\* not discriminated if there is none.
C4_DiscriminatorSelection ==
    \A i \in 1..Len(input) :
        LET name == input[i].k
            u == input[i].v
        IN  IsUnion(u) =>
              /\ \A t \in Candidates :
                    /\ AllDeclare(u, t) =>
                         _check_discriminator(_POTENTIAL_TAG_FIELDS[t],
                                              ResolvedMembers(u)) = "True"
                    /\ SomeLacks(u, t) =>
                         _check_discriminator(_POTENTIAL_TAG_FIELDS[t],
                                              ResolvedMembers(u)) = "False"
              /\ Handled(name) =>
                    IF FirstDeclared(u) = 0
                    THEN ~Has(DGet(schema, name), "discriminator")
                    ELSE /\ Has(DGet(schema, name), "discriminator")
                         /\ DGet(schema, name)["discriminator"]["propertyName"]
                              = _POTENTIAL_TAG_FIELDS[FirstDeclared(u)]

\* the names under which the run has extracted a definition, in order
ExtractedNames ==
    SelectSeq(log, LAMBDA e : e.ev \in {"member", "union"})

\* C9: a run that finishes has given every definition it extracted a name of
\* its own: no two extractions share a name, and none takes the name of a
\* definition the document already had.
C9_NoSilentOverwrite ==
    pc = "done" =>
        /\ \A i, j \in 1..Len(ExtractedNames) :
              i # j => ExtractedNames[i].name # ExtractedNames[j].name
        /\ \A i \in 1..Len(ExtractedNames) :
              ~DHas(DeleteExcluded(IF run = 1 THEN input ELSE first, 1).defs,
                    ExtractedNames[i].name)


-----------------------------------------------------------------------------
(* Properties of the post-processing *)

Overridden == DOMAIN _DATA_MODEL_NAME_OVERRIDES

IsNameOrString(t) == t.type \in {"NAME", "STRING"}

\* the tokens of the generated module, with the tokens of the inserted
\* declarations at the places they have in the written source
OriginalTokens ==
    ModuleTokens(InsertNodes(generated, additional_nodes,
                             Len(additional_nodes)), 1)

\* a token where a key of the override table occurred
IsRenameSite(t) == IsNameOrString(t) /\ t.string \in Overridden

\* the last class header name at or before position p, 0 if there is none
LastClassName(toks, p) ==
    IF \E q \in 2..p : toks[q - 1] = Kw("class")
    THEN CHOOSE q \in 2..p :
            /\ toks[q - 1] = Kw("class")
            /\ \A r \in (q + 1)..p : toks[r - 1] # Kw("class")
    ELSE 0

\* position p lies in a class whose name ends in "Dict", after that name and
\* before the dedent that closes the class
InDictClass(toks, p) ==
    /\ LastClassName(toks, p - 1) # 0
    /\ EndsWith(toks[LastClassName(toks, p - 1)].string, DictSuffix)
    /\ \A r \in (LastClassName(toks, p - 1) + 1)..(p - 1) :
          toks[r].type # "DEDENT"

TokensWritten == gpc \in {"tokens", "done"}

\* no line of the final source holds a key as a name or as a whole string
NoOverriddenName ==
    \A l \in 1..Len(source) : \A k \in 1..Len(source[l].toks) :
        ~IsRenameSite(source[l].toks[k])

\* every place of a key in the tokens orig holds what expected gives for it
SitesHold(orig, expected(_, _)) ==
    /\ Len(tokens) = Len(orig)
    /\ \A p \in 1..Len(orig) :
          IsRenameSite(orig[p]) =>
              tokens[p].string =
                  expected(p, _DATA_MODEL_NAME_OVERRIDES[orig[p].string])

MappedName(p, mapped) == mapped

MappedOrMirroredName(p, mapped) ==
    IF tokens[p].type = "NAME" /\ InDictClass(tokens, p)
    THEN GetOr(dict_token_replacements, mapped, mapped)
    ELSE mapped

\* C5 as stated: the final source holds no key K of the override table as a
\* name or forward reference, and every place where K occurred, the bodies
\* of the dict classes included, holds table[K].
C5_MappedNameAtEverySite ==
    TokensWritten =>
        /\ SitesHold(OriginalTokens, MappedName)
        /\ gpc = "done" => NoOverriddenName

\* C5, amended: the final source holds no key K of the override table as a
\* name or as a whole string constant; every place where K occurred as a
\* class name, a name or a whole string constant holds table[K], except the
\* names inside a dict class, after its class name and up to its dedent,
\* which hold the entry of table[K] in dict_token_replacements if it has
\* one.
C5_MappedOrMirroredName ==
    TokensWritten =>
        /\ SitesHold(OriginalTokens, MappedOrMirroredName)
        /\ gpc = "done" => NoOverriddenName

\* some place of a key in orig satisfies the condition at
SomeSite(orig, at(_, _)) ==
    \E p \in 1..Len(orig) : IsRenameSite(orig[p]) /\ at(orig, p)

IsForwardReference(orig, p) == orig[p].type = "STRING"

IsClassName(orig, p) == p > 1 /\ orig[p - 1] = Kw("class")

IsMirrored(orig, p) ==
    /\ InDictClass(tokens, p)
    /\ tokens[p].string # _DATA_MODEL_NAME_OVERRIDES[orig[p].string]

\* a finished run in which a key occurred as a forward reference string, as
\* a class name, and as a name inside a dict class that now holds the mirror
C5_Witness ==
    /\ gpc = "done"
    /\ SomeSite(OriginalTokens, IsForwardReference)
    /\ SomeSite(OriginalTokens, IsClassName)
    /\ SomeSite(OriginalTokens, IsMirrored)

RECURSIVE UnionMembers(_)
UnionMembers(expr) ==
    IF expr.e = "BinOp"
    THEN UnionMembers(expr.left) \o UnionMembers(expr.right)
    ELSE <<expr>>

Occurrences(members, m) ==
    Cardinality({i \in 1..Len(members) : members[i] = m})

SameMembers(a, b) ==
    /\ Len(a) = Len(b)
    /\ \A i \in 1..Len(a) : Occurrences(a, a[i]) = Occurrences(b, a[i])

IsUnionAlias(node) == IsAliasAssign(node) /\ node.value.e = "BinOp"

\* a member that is a struct class whose dict class is registered
HasMirror(m) ==
    /\ m.e = "Name"
    /\ m.id \in declared_structs
    /\ m.id \in DOMAIN dict_token_replacements

Mirrored(m) ==
    IF m.e = "Name" /\ m.id \in DOMAIN dict_token_replacements
    THEN Name(dict_token_replacements[m.id])
    ELSE m

MirroredMembers(members) == [i \in 1..Len(members) |-> Mirrored(members[i])]

\* the node the loop has just dealt with
LastScanned == body[body_idx - 1]

JustScanned == gpc = "scan" /\ body_idx > 1

\* C6: once the loop has dealt with a union alias A that has a member with a
\* registered mirror, the declaration of ADict is scheduled for the place
\* after A, and its members are those of A, each replaced by its mirror if
\* it has one, None included iff A has it; and in the written module every
\* scheduled declaration stands immediately after its alias.
C6_UnionAliasMirror ==
    /\ (/\ JustScanned
        /\ IsUnionAlias(LastScanned)
        /\ \E i \in 1..Len(UnionMembers(LastScanned.value)) :
              HasMirror(UnionMembers(LastScanned.value)[i]))
       => /\ Len(additional_nodes) > 0
          /\ additional_nodes[Len(additional_nodes)].at = body_idx - 1
          /\ additional_nodes[Len(additional_nodes)].node.target =
                Name(LastScanned.target.id \o DictSuffix)
          /\ SameMembers(
                UnionMembers(additional_nodes[Len(additional_nodes)].node.value),
                MirroredMembers(UnionMembers(LastScanned.value)))
    /\ TokensWritten =>
          \A k \in 1..Len(additional_nodes) :
              /\ body[additional_nodes[k].at + k] = additional_nodes[k].node
              /\ IsUnionAlias(body[additional_nodes[k].at + k - 1])
              /\ body[additional_nodes[k].at + k - 1].target.id \o DictSuffix
                    = additional_nodes[k].node.target.id

ScanFinished == gpc = "scan" /\ body_idx > Len(body)

IsRenamedClass(node) == node.s = "ClassDef" /\ node.name \in Overridden

\* C7: when the loop over the top level nodes has finished, every class whose
\* generated name G is a key of the override table is declared as table[G],
\* and every docstring of a renamed class that mentioned G mentions
\* table[G] and no longer G.
C7_DocstringsFollowRename ==
    ScanFinished =>
        \A i \in 1..Len(generated) :
            IsRenamedClass(generated[i]) =>
                /\ body[i].name = _DATA_MODEL_NAME_OVERRIDES[generated[i].name]
                /\ \A j \in 1..Len(generated) :
                      (/\ IsRenamedClass(generated[j])
                       /\ Len(generated[j].doc) = 1
                       /\ Contains(generated[j].doc[1], generated[i].name))
                      => /\ Contains(body[j].doc[1],
                                  _DATA_MODEL_NAME_OVERRIDES[generated[i].name])
                         /\ ~Contains(body[j].doc[1], generated[i].name)

\* the names the top level statements of the written module declare
DeclaredNames ==
    { body[i].name : i \in { j \in 1..Len(body) : body[j].s = "ClassDef" } }
    \cup { body[i].target.id :
             i \in { j \in 1..Len(body) : IsAliasAssign(body[j]) } }

IsAllLine(line) ==
    /\ Len(line.toks) > 0
    /\ line.toks[1] = Tok("NAME", <<"__all__">>)

IsClassLine(line) == Len(line.toks) > 0 /\ line.toks[1] = Kw("class")

ManifestLines == { l \in 1..Len(source) : IsAllLine(source[l]) }

FirstClass ==
    CHOOSE c \in 1..Len(source) :
        /\ IsClassLine(source[c])
        /\ \A d \in 1..(c - 1) : ~IsClassLine(source[d])

\* C8: the final source holds one __all__ manifest; it lists every name the
\* module declares (classes, aliases, inserted dict aliases) once, in sorted
\* order, and it ends, followed by its two blank lines, at the first class.
C8_ManifestListsEveryName ==
    gpc = "done" =>
        /\ Cardinality(ManifestLines) = 1
        /\ \A a \in ManifestLines :
              /\ a + Cardinality(DeclaredNames) + 4 = FirstClass
              /\ source[FirstClass - 3] = Line(0, <<Op("]")>>)
              /\ \A n \in DeclaredNames :
                    \E l \in (a + 1)..(FirstClass - 4) :
                        source[l] = Line(1, <<Tok("STRING", n), Op(",")>>)
              /\ \A l \in (a + 1)..(FirstClass - 5) :
                    NameLess(source[l].toks[1].string,
                             source[l + 1].toks[1].string)

-----------------------------------------------------------------------------
(* Properties of the script *)

\* C10: an external step that returns a failure is the last step of the run,
\* and the run has failed: no step follows it and the run does not finish.
C10_FailedStepAborts ==
    \A i \in 1..Len(ran) :
        ran[i].returncode # 0 => i = Len(ran) /\ mpc = "failed"

\* C11: the schema export is entered (its first statements delete the
\* exported and the cached schema, then the export commands run) only when
\* --regen-schema is passed or neither the cached nor the exported schema
\* exists; without the option a cached schema is reused.
C11_CachedSchemaReused ==
    mpc = "export" =>
        \/ argv = <<"--regen-schema">>
        \/ ~exists[_CACHED_SCHEMA_PATH] /\ ~exists[_SCHEMA_PATH]

\* the tag fields the detector is asked about: the candidates and one more
TagFields ==
    {_POTENTIAL_TAG_FIELDS[t] : t \in Candidates} \cup {<<"kind">>}

FailsCondition(u, f) ==
    \E i \in 1..Len(u["anyOf"]) : ~DeclaresTag(ResolvedMembers(u)[i], f)

\* C12: for every top-level union of the input and every tag field, if some
\* resolved member is not an object with properties, does not declare the
\* field, declares it with a type other than string or with no type, or
\* declares no constant, the detector answers False (it does not raise).
C12_DetectorIsTotal ==
    \A i \in 1..Len(input) :
        LET u == input[i].v
        IN  IsUnion(u) =>
              \A f \in TagFields :
                  FailsCondition(u, f) =>
                      _check_discriminator(f, ResolvedMembers(u)) = "False"

\* an anonymous union whose inline members all declare one candidate tag
\* field: one the processor extracts and names when it visits it
IsDiscriminatedInline(u) ==
    /\ IsUnion(u)
    /\ \E t \in Candidates :
          \A i \in 1..Len(u["anyOf"]) :
              DeclaresTag(u["anyOf"][i], _POTENTIAL_TAG_FIELDS[t])

\* spec is, or holds as array item, such a union
HoldsInnerUnion(field_spec) ==
    \/ IsDiscriminatedInline(field_spec)
    \/ IsArray(field_spec) /\ IsDiscriminatedInline(field_spec["items"])

\* some property of the object spec still holds such a union
HasInnerUnion(spec) ==
    /\ IsObject(spec)
    /\ \E f \in 1..Len(spec["properties"]) :
          HoldsInnerUnion(spec["properties"][f].v)

\* C13: whenever the first run has turned an inline union member into a
\* reference to a new definition, no property or array item of that
\* definition still holds an anonymous discriminated union: the inner unions
\* were extracted and named before the enclosing union referred to the member.
C13_InnerUnionsNamedFirst ==
    run = 1 =>
        \A i \in 1..Len(log) :
            (log[i].ev = "member" /\ DHas(Added, log[i].name))
                => ~HasInnerUnion(DGet(Added, log[i].name))

-----------------------------------------------------------------------------
(* Properties of the loop over the tokens *)

\* position p of the tokens written is a name the loop has to replace
IsReplaced(written, p) ==
    /\ written[p].type = "NAME"
    /\ written[p].string \in DOMAIN dict_token_replacements
    /\ InDictClass(written, p)

\* the loop's output on the tokens written: the replacement at the places to
\* replace, the token itself everywhere else
ScopeHolds(written) ==
    /\ Len(tokens) = Len(written)
    /\ \A p \in 1..Len(written) :
          tokens[p] =
              IF IsReplaced(written, p)
              THEN [written[p] EXCEPT
                       !.string = dict_token_replacements[written[p].string]]
              ELSE written[p]

ScopeShown(written) ==
    /\ \E p \in 1..Len(written) :
          IsReplaced(written, p) /\ tokens[p] # written[p]
    /\ \E p \in 1..Len(written) :
          /\ written[p].type = "NAME"
          /\ written[p].string \in DOMAIN dict_token_replacements
          /\ dict_token_replacements[written[p].string] # written[p].string
          /\ ~InDictClass(written, p)
          /\ \E q \in 1..(p - 1) :
                written[q].type = "DEDENT" /\ InDictClass(written, q)
          /\ tokens[p] = written[p]

-----------------------------------------------------------------------------
(* Properties of the references the inference writes *)

\* the references of a schema object: its "$ref", the values of its
\* discriminator mapping, and those of its members, items and properties
RECURSIVE RefsIn(_)
RefsIn(spec) ==
    (IF Has(spec, "$ref") THEN {spec["$ref"]} ELSE {})
    \cup (IF Has(spec, "discriminator")
          THEN {spec["discriminator"]["mapping"][i].v :
                    i \in 1..Len(spec["discriminator"]["mapping"])}
          ELSE {})
    \cup (IF Has(spec, "anyOf")
          THEN UNION {RefsIn(spec["anyOf"][i]) : i \in 1..Len(spec["anyOf"])}
          ELSE {})
    \cup (IF Has(spec, "items") THEN RefsIn(spec["items"]) ELSE {})
    \cup (IF Has(spec, "properties")
          THEN UNION {RefsIn(spec["properties"][i].v) :
                          i \in 1..Len(spec["properties"])}
          ELSE {})

DocRefs(defs) == UNION {RefsIn(defs[i].v) : i \in 1..Len(defs)}

\* _resolve_json_ref on the document returns the definition the reference
\* names
ResolvesToDefinition(defs, ref) ==
    /\ ResolveJsonRef(defs, ref).err = ""
    /\ DHas(defs, RemovePrefix(ref, RefPrefix))
    /\ GetAt(defs, ResolveJsonRef(defs, ref).path)
         = DGet(defs, RemovePrefix(ref, RefPrefix))

\* C15: when the first run has finished without an exception, every
\* reference of the resulting document that the input did not hold (a "$ref"
\* or a discriminator mapping value written for an extracted member, an
\* extracted union or a ReturnValue payload) is resolved by _resolve_json_ref
\* to the definition registered under the name it carries.
C15_WrittenRefsResolve ==
    (run = 1 /\ pc = "done") =>
        \A ref \in DocRefs(schema) \ DocRefs(input) :
            ResolvesToDefinition(schema, ref)

-----------------------------------------------------------------------------
(* Properties of the dict class bodies *)

\* the struct classes of the written module whose dict class it declares too
MirroredStructs ==
    { body[i].name :
        i \in { j \in 1..Len(body) :
                  /\ body[j].s = "ClassDef"
                  /\ \E k \in 1..Len(body) :
                        /\ body[k].s = "ClassDef"
                        /\ body[k].name = body[j].name \o DictSuffix } }

\* the names a type expression mentions
NamesIn(expr) ==
    { AstWalk(expr)[i].id :
        i \in { j \in 1..Len(AstWalk(expr)) : AstWalk(expr)[j].e = "Name" } }

\* name is such a struct class, or an alias whose value mentions one,
\* directly or through at most depth further aliases
RECURSIVE ResolvesToMirrored(_, _, _)
ResolvesToMirrored(name, structs, depth) ==
    \/ name \in structs
    \/ /\ depth > 0
       /\ \E i \in 1..Len(body) :
             /\ IsAliasAssign(body[i])
             /\ body[i].target.id = name
             /\ \E n \in NamesIn(body[i].value) :
                   ResolvesToMirrored(n, structs, depth - 1)

AliasDepth == 2

\* no name token inside a dict class of the tokens toks is such a name
MirrorBodiesClosed(toks, structs) ==
    \A p \in 1..Len(toks) :
        (toks[p].type = "NAME" /\ InDictClass(toks, p))
            => ~ResolvesToMirrored(toks[p].string, structs, AliasDepth)

\* C16: in the written module, no name inside the body of a dict class is a
\* struct class that has a dict class, nor a simple or union alias that
\* resolves to one, wherever the alias is declared.
C16_MirrorBodiesClosed ==
    TokensWritten => MirrorBodiesClosed(tokens, MirroredStructs)

\* the written module declares the alias name
DeclaresAlias(name) ==
    \E i \in 1..Len(body) : IsAliasAssign(body[i]) /\ body[i].target.id = name

\* the union alias node got a dict alias: its declaration or its replacement
HasDictAlias(node) ==
    \/ DeclaresAlias(node.target.id \o DictSuffix)
    \/ /\ node.target.id \in DOMAIN dict_token_replacements
       /\ dict_token_replacements[node.target.id]
            = node.target.id \o DictSuffix

\* some member of the union is a struct class with a dict class, or an alias
\* of one
HasMirroredMember(node, structs) ==
    \E n \in NamesIn(node.value) : ResolvesToMirrored(n, structs, AliasDepth)

\* C17: in the written module, a union alias A has a declaration ADict, or
\* the replacement of A by ADict, only if one of its members is a struct
\* class with a dict class or an alias of one; a union of builtins, aliases
\* of builtins and unmirrored types has neither.
C17_DictAliasOnlyWhenNeeded ==
    TokensWritten =>
        \A i \in 1..Len(body) :
            (IsUnionAlias(body[i]) /\ HasDictAlias(body[i]))
                => HasMirroredMember(body[i], MirroredStructs)
====
